---- MODULE Spec2Model ----
(***************************************************************************)
(* List Generator 5000 (src/app.py): the chunked, resumable fetch of the   *)
(* profile pages of every campus.  One Dash callback, fetch_profiles, is   *)
(* run per trigger (Fetch button or auto-fetch interval tick); it issues   *)
(* at most one GET through fetch_paginated_chunk and keeps its position in *)
(* the module globals FETCH_STATE, cached_df and cached_name.              *)
(*                                                                         *)
(* An invocation is modelled around its only blocking point, requests.get: *)
(* Begin runs fetch_profiles from its entry up to the GET (or to its       *)
(* return when no GET is issued), Answer is the server (or the network)    *)
(* ending the GET, Finish runs the invocation from there to its return.    *)
(***************************************************************************)
EXTENDS Integers, Sequences, FiniteSets, TLC

VARIABLES
    FETCH_STATE,        \* app.py:312  the run state dict
    cached_df,          \* app.py:310  the accumulated rows (DataFrame, in row order)
    cached_name,        \* app.py:310  the CSV file name of the run
    calls,              \* the locals of each invocation that is inside requests.get
    ret,                \* what the last invocation returned (or raised), once it has
    interval_disabled,  \* app.py:593  dcc.Interval "disabled", an Output of the callback
    ideal,              \* history: the same run fetched with no failure and no pause
    fn                  \* a helper function applied on its own: its name, argument, result

vars == <<FETCH_STATE, cached_df, cached_name, calls, ret, interval_disabled, ideal,
          fn>>

----------------------------------------------------------------------------
(* Bounds of the model *)

NumCampuses == 2     \* campuses kept of the 12 integer entries of CAMPUS_OPTS
MaxPages    == 2     \* pages a campus can have on the server
MaxClicks   == 2     \* largest n_clicks a Fetch click carries
MaxTotalRows == 4    \* overlapping triggers arrive until total_rows is this

----------------------------------------------------------------------------
(* Constants of the program *)

RETRYABLE_STATUSES == {502, 503, 504, 524}

\* The status codes the server answers with: 200, another 2xx, credential
\* failures, a client error and the retryable set.
Statuses == {200, 201, 401, 403, 404} \cup RETRYABLE_STATUSES

\* CAMPUS_OPTS: the integer values, in order ("all" is not an int).
CampusValues == [i \in 1..NumCampuses |-> i]

\* ROLE_OPTS values offered by the role dropdown (two of the four kept).
RoleVals == {"", "athlete"}

\* ROLE_ID_MAP.get(role_val, ""); 0 stands for the empty string (falsy).
ROLE_ID_MAP(role_val) == IF role_val = "athlete" THEN 1 ELSE 0

Triggers == {"btn-fetch", "auto-fetch-interval"}

\* The invocations of fetch_profiles that can be running at one time: the
\* callback takes no lock, so a second one can start while the first is in
\* requests.get.  Spec runs them one after the other, in slot 1.
Slots == {1, 2}

----------------------------------------------------------------------------
(* URLs.  A URL of PROFILES_URL is its query: campus_id, role_id and the   *)
(* page the DRF cursor stands at.  None is NoUrl.                          *)

NoUrl == [cid |-> 0, role_id |-> 0, page |-> 0]

\* f"{PROFILES_URL}?campus_id={cid}" plus "&role_id=" when role_id is truthy
BaseUrl(cid, role_id) == [cid |-> cid, role_id |-> role_id, page |-> 1]

\* DRF's "next" link: the same query, one page further
NextLink(url) == [url EXCEPT !.page = url.page + 1]

----------------------------------------------------------------------------
(* Rows *)

\* The "results" lists a page can carry: none, one record, the same record
\* twice, two different records.
Bodies == {<<>>, <<"r1">>, <<"r1", "r1">>, <<"r1", "r2">>}

\* flatten_profile(r, cid): the flattened record with the campus_id column
flatten_profile(r, cid) == [rec |-> r, campus_id |-> cid]

FlattenRows(rows, cid) == [i \in 1..Len(rows) |-> flatten_profile(rows[i], cid)]

\* DataFrame.drop_duplicates(): keep the first of each group of equal rows
RECURSIVE drop_duplicates(_)
drop_duplicates(df) ==
    IF df = <<>> THEN <<>>
    ELSE LET n    == Len(df)
             head == drop_duplicates(SubSeq(df, 1, n - 1))
         IN  IF \E i \in 1..(n - 1) : df[i] = df[n] THEN head ELSE Append(head, df[n])

\* Step 3 of fetch_profiles: update cached_df with the new flattened rows
UpdateCachedDf(df, new_flattened_rows) ==
    IF new_flattened_rows # <<>>
    THEN IF df = <<>> THEN new_flattened_rows
         ELSE drop_duplicates(df \o new_flattened_rows)
    ELSE df

----------------------------------------------------------------------------
(* The HTTP attempt.  What one requests.get can do:                        *)
(*   "timeout"   ReadTimeout, ConnectTimeout, ConnectionError or Timeout   *)
(*   "exception" any other exception raised by requests.get                *)
(*   "status"    a response; with status 200, body_ok tells whether the    *)
(*               body is a JSON object with a "results" list, rows is that *)
(*               list and has_next whether "next" is a link                *)

Attempt(kind, status, body_ok, rows, has_next) ==
    [kind |-> kind, status |-> status, body_ok |-> body_ok, rows |-> rows,
     has_next |-> has_next]

Attempts(url) ==
    {Attempt("timeout", 0, FALSE, <<>>, FALSE), Attempt("exception", 0, FALSE, <<>>, FALSE)}
    \cup {Attempt("status", st, FALSE, <<>>, FALSE) : st \in Statuses}
    \cup {Attempt("status", 200, TRUE, b, n) :
             b \in Bodies, n \in {h \in BOOLEAN : h => url.page < MaxPages}}

\* Variant: a timeout gives the cursor up
fetch_paginated_chunk_TimeoutDrops(url, a) ==
    IF a.kind \in {"timeout", "exception"}
    THEN [rows |-> <<>>, new_next |-> NoUrl, log |-> "timeout_error", raises |-> FALSE]
    ELSE IF a.status \in RETRYABLE_STATUSES
    THEN [rows |-> <<>>, new_next |-> url, log |-> "retryable", raises |-> FALSE]
    ELSE IF a.status # 200
    THEN [rows |-> <<>>, new_next |-> NoUrl, log |-> "http_error", raises |-> FALSE]
    ELSE IF ~a.body_ok
    THEN [rows |-> <<>>, new_next |-> NoUrl, log |-> "none", raises |-> TRUE]
    ELSE [rows |-> a.rows,
          new_next |-> IF a.has_next THEN NextLink(url) ELSE NoUrl,
          log |-> "fetched", raises |-> FALSE]

\* Variant: 524 is missing from the retryable statuses
fetch_paginated_chunk_ExceptionRetries(url, a) ==
    IF a.kind \in {"timeout", "exception"}
    THEN [rows |-> <<>>, new_next |-> url, log |-> "timeout_error", raises |-> FALSE]
    ELSE IF a.status \in RETRYABLE_STATUSES
    THEN [rows |-> <<>>, new_next |-> url, log |-> "retryable", raises |-> FALSE]
    ELSE IF a.status # 200
    THEN [rows |-> <<>>, new_next |-> NoUrl, log |-> "http_error", raises |-> FALSE]
    ELSE IF ~a.body_ok
    THEN [rows |-> <<>>, new_next |-> NoUrl, log |-> "none", raises |-> TRUE]
    ELSE [rows |-> a.rows,
          new_next |-> IF a.has_next THEN NextLink(url) ELSE NoUrl,
          log |-> "fetched", raises |-> FALSE]

fetch_paginated_chunk_Without524(url, a) ==
    IF a.kind = "timeout"
    THEN [rows |-> <<>>, new_next |-> url, log |-> "timeout_error", raises |-> FALSE]
    ELSE IF a.kind = "exception"
    THEN [rows |-> <<>>, new_next |-> NoUrl, log |-> "unexpected_error", raises |-> FALSE]
    ELSE IF a.status \in {502, 503, 504}
    THEN [rows |-> <<>>, new_next |-> url, log |-> "retryable", raises |-> FALSE]
    ELSE IF a.status # 200
    THEN [rows |-> <<>>, new_next |-> NoUrl, log |-> "http_error", raises |-> FALSE]
    ELSE IF ~a.body_ok
    THEN [rows |-> <<>>, new_next |-> NoUrl, log |-> "none", raises |-> TRUE]
    ELSE [rows |-> a.rows,
          new_next |-> IF a.has_next THEN NextLink(url) ELSE NoUrl,
          log |-> "fetched", raises |-> FALSE]

\* fetch_paginated_chunk from the answer of requests.get on: the rows and
\* the next URL it returns, the line it logs, or the exception it lets out.
fetch_paginated_chunk(url, a) ==
    IF a.kind = "timeout"
    THEN [rows |-> <<>>, new_next |-> url, log |-> "timeout_error", raises |-> FALSE]
    ELSE IF a.kind = "exception"
    THEN [rows |-> <<>>, new_next |-> NoUrl, log |-> "unexpected_error", raises |-> FALSE]
    ELSE IF a.status \in RETRYABLE_STATUSES
    THEN [rows |-> <<>>, new_next |-> url, log |-> "retryable", raises |-> FALSE]
    ELSE IF a.status # 200
    THEN [rows |-> <<>>, new_next |-> NoUrl, log |-> "http_error", raises |-> FALSE]
    ELSE IF ~a.body_ok
    THEN [rows |-> <<>>, new_next |-> NoUrl, log |-> "none", raises |-> TRUE]
    ELSE [rows |-> a.rows,
          new_next |-> IF a.has_next THEN NextLink(url) ELSE NoUrl,
          log |-> "fetched", raises |-> FALSE]

\* fetch_paginated_chunk when the deadline has passed before the request
ChunkOutOfTime(url) ==
    [rows |-> <<>>, new_next |-> url, log |-> "none", raises |-> FALSE]

----------------------------------------------------------------------------
(* fetch_profiles *)

\* Variant: a Fetch click restarts only a finished cycle
StartsNewCycle_OnlyWhenDone(trigger_id, done, n_clicks) ==
    trigger_id = "btn-fetch" /\ done

\* Variant: the trigger is not looked at
StartsNewCycle_AnyTrigger(trigger_id, done, n_clicks) ==
    done \/ n_clicks <= 1

\* Variant: every Fetch click starts a new cycle
StartsNewCycle_EveryClick(trigger_id, done, n_clicks) ==
    trigger_id = "btn-fetch"

\* The condition under which a Fetch click starts a new cycle
StartsNewCycle(trigger_id, done, n_clicks) ==
    trigger_id = "btn-fetch" /\ (done \/ n_clicks <= 1)

\* Variant: a new cycle that keeps the saved cursor
NewCycle_KeepsCursor ==
    [campus_ids |-> CampusValues, current_index |-> 0,
     next_url |-> FETCH_STATE.next_url, done |-> FALSE, total_rows |-> 0]

\* The FETCH_STATE of a new cycle
NewCycle ==
    [campus_ids |-> CampusValues, current_index |-> 0, next_url |-> NoUrl,
     done |-> FALSE, total_rows |-> 0]

\* f"profiles_{campus_tag}{'_'+role_val if role_val else ''}.csv"
CsvName(role_val) ==
    IF role_val = "" THEN "profiles_all.csv" ELSE "profiles_all_athlete.csv"

\* Variant: done is set one campus too late
\* Variant: the rows of the last page of a campus are not counted
AdvanceState_ForgetsLastPage(fs, idx, campus_ids, rows, new_next) ==
    IF new_next # NoUrl
    THEN [fs EXCEPT !.total_rows = @ + Len(rows), !.next_url = new_next]
    ELSE [fs EXCEPT !.current_index = idx + 1,
                    !.next_url = NoUrl,
                    !.done = IF idx + 1 >= Len(campus_ids) THEN TRUE ELSE @]

\* Variant: a campus that ends without rows takes the next one with it
AdvanceState_SkipsOne(fs, idx, campus_ids, rows, new_next) ==
    LET counted == [fs EXCEPT !.total_rows = @ + Len(rows)]
        step    == IF rows = <<>> THEN 2 ELSE 1
    IN  IF new_next # NoUrl
        THEN [counted EXCEPT !.next_url = new_next]
        ELSE [counted EXCEPT !.current_index = idx + step,
                             !.next_url = NoUrl,
                             !.done = IF idx + step >= Len(campus_ids) THEN TRUE ELSE @]

AdvanceState_EmptyEndsRun(fs, idx, campus_ids, rows, new_next) ==
    LET counted == [fs EXCEPT !.total_rows = @ + Len(rows)]
    IN  IF new_next # NoUrl
        THEN [counted EXCEPT !.next_url = new_next]
        ELSE [counted EXCEPT !.current_index = idx + 1,
                             !.next_url = NoUrl,
                             !.done = IF idx + 1 >= Len(campus_ids) \/ rows = <<>>
                                      THEN TRUE ELSE @]

AdvanceState_LateDone(fs, idx, campus_ids, rows, new_next) ==
    LET counted == [fs EXCEPT !.total_rows = @ + Len(rows)]
    IN  IF new_next # NoUrl
        THEN [counted EXCEPT !.next_url = new_next]
        ELSE [counted EXCEPT !.current_index = idx + 1,
                             !.next_url = NoUrl,
                             !.done = IF idx + 1 > Len(campus_ids) THEN TRUE ELSE @]

\* Step 2 after the chunk returned: count the rows, then keep the cursor or
\* move to the next campus.  idx and campus_ids are the invocation's locals.
AdvanceState(fs, idx, campus_ids, rows, new_next) ==
    LET counted == [fs EXCEPT !.total_rows = @ + Len(rows)]
    IN  IF new_next # NoUrl
        THEN [counted EXCEPT !.next_url = new_next]
        ELSE [counted EXCEPT !.current_index = idx + 1,
                             !.next_url = NoUrl,
                             !.done = IF idx + 1 >= Len(campus_ids) THEN TRUE ELSE @]

AdvanceLog(idx, campus_ids, new_next) ==
    IF new_next # NoUrl THEN <<"more_pages">>
    ELSE IF idx + 1 >= Len(campus_ids) THEN <<"campus_completed", "all_complete">>
    ELSE <<"campus_completed">>

NoAttempt == Attempt("none", 0, FALSE, <<>>, FALSE)

\* The locals of an invocation that is not running
Idle ==
    [pc |-> "idle", trigger |-> "none", n_clicks |-> 0, reset |-> FALSE,
     campus_ids |-> <<>>, idx |-> 0, cid |-> 0, url |-> NoUrl, log |-> <<>>,
     attempt |-> NoAttempt, in_time |-> TRUE]

\* What an invocation hands back: its log, and whether it was a Fetch click
\* or a tick, whether it started a new cycle, whether it sent a request,
\* how many rows it flattened and whether its deadline was still ahead.
Returned(c, requested, added, log) ==
    [trigger |-> c.trigger, reset |-> c.reset, requested |-> requested,
     added |-> added, raised |-> FALSE, log |-> log, in_time |-> c.in_time]

\* The invocation is inside requests.get: it has returned nothing yet
Pending(c) ==
    [trigger |-> c.trigger, reset |-> c.reset, requested |-> TRUE,
     added |-> 0, raised |-> FALSE, log |-> <<"pending">>, in_time |-> TRUE]

\* An exception left the callback: nothing is returned, no Output is set
Raised(c) ==
    [trigger |-> c.trigger, reset |-> c.reset, requested |-> TRUE,
     added |-> 0, raised |-> TRUE, log |-> <<>>, in_time |-> TRUE]

----------------------------------------------------------------------------
(* History: the run as one uninterrupted fetch would make it.  pos is the  *)
(* page the server is to be asked next (campus index from 0, page from 1), *)
(* store the rows of the pages answered so far, appended as step 3 does,   *)
(* retried whether an attempt of the run met a failure to be tried again.  *)

IdealStart == [pos |-> <<0, 1>>, store |-> <<>>, retried |-> FALSE]

\* The failures the next trigger is to try again
Transient(a) ==
    \/ a.kind = "timeout"
    \/ a.kind = "status" /\ a.status \in {502, 503, 504, 524}

IdealAppend(store, rows) ==
    IF rows = <<>> THEN store
    ELSE IF store = <<>> THEN rows
    ELSE drop_duplicates(store \o rows)

IdealStep(h, url, a) ==
    LET i == h.pos[1]
        p == h.pos[2]
    IN  IF i >= NumCampuses \/ url.cid # CampusValues[i + 1] \/ url.page # p
        THEN h
        ELSE IF Transient(a)
        THEN [h EXCEPT !.retried = TRUE]
        ELSE IF a.kind = "status" /\ a.status = 200 /\ ~a.body_ok
        THEN h
        ELSE IF a.kind = "status" /\ a.status = 200
        THEN [h EXCEPT !.pos   = IF a.has_next THEN <<i, p + 1>> ELSE <<i + 1, 1>>,
                       !.store = IdealAppend(h.store, FlattenRows(a.rows, url.cid))]
        ELSE [h EXCEPT !.pos = <<i + 1, 1>>]

----------------------------------------------------------------------------
(* The state machine *)

\* No helper function is applied on its own
NoCall == [name |-> "", arg |-> <<>>, out |-> <<>>, returned |-> FALSE]

Init ==
    /\ FETCH_STATE = [campus_ids |-> <<>>, current_index |-> 0, next_url |-> NoUrl,
                      done |-> TRUE, total_rows |-> 0]
    /\ cached_df = <<>>
    /\ cached_name = ""
    /\ calls = [s \in Slots |-> Idle]
    /\ ret = Returned(Idle, FALSE, 0, <<>>)
    /\ interval_disabled = TRUE
    /\ ideal = IdealStart
    /\ fn = NoCall

\* fetch_profiles from the return of fetch_paginated_chunk to its own return
\* (lines 930-1043), for the invocation with locals c on the globals fs, df.
FinishFetch(s, c, fs, df, chunk, requested) ==
    LET new_flattened_rows == FlattenRows(chunk.rows, c.cid)
        fs2 == AdvanceState(fs, c.idx, c.campus_ids, chunk.rows, chunk.new_next)
        log == c.log
               \o (IF chunk.log = "none" THEN <<>> ELSE <<chunk.log>>)
               \o AdvanceLog(c.idx, c.campus_ids, chunk.new_next)
               \o (IF new_flattened_rows = <<>> THEN <<"no_new_rows">> ELSE <<>>)
    IN  /\ FETCH_STATE' = fs2
        /\ cached_df' = UpdateCachedDf(df, new_flattened_rows)
        /\ interval_disabled' = fs2.done
        /\ ret' = Returned(c, requested, Len(new_flattened_rows), log)
        /\ calls' = [calls EXCEPT ![s] = Idle]

\* Variant: the interval is left as it was
NoTokenReturn_KeepsInterval(trigger_id) ==
    /\ ret' = Returned([Idle EXCEPT !.trigger = trigger_id], FALSE, 0,
                       <<"no_token">>)
    /\ UNCHANGED <<FETCH_STATE, cached_df, cached_name, calls, ideal,
                   interval_disabled>>

NoTokenReturn_ClearsCache(trigger_id) ==
    /\ ret' = Returned([Idle EXCEPT !.trigger = trigger_id], FALSE, 0,
                       <<"no_token">>)
    /\ interval_disabled' = TRUE
    /\ cached_df' = <<>>
    /\ UNCHANGED <<FETCH_STATE, cached_name, calls, ideal>>

\* auth.get_token() gave nothing: fetch_profiles returns the login message
\* and disables the interval
NoTokenReturn(trigger_id) ==
    /\ ret' = Returned([Idle EXCEPT !.trigger = trigger_id], FALSE, 0,
                       <<"no_token">>)
    /\ interval_disabled' = TRUE
    /\ UNCHANGED <<FETCH_STATE, cached_df, cached_name, calls, ideal>>

\* A trigger arrives and fetch_profiles runs up to requests.get, or to its
\* return when it makes no request.  late: where the deadline is found passed.
Begin(s, trigger_id, n_clicks, role_val, token, late) ==
    /\ calls[s].pc = "idle"
    /\ UNCHANGED fn
    /\ IF ~token
       THEN NoTokenReturn(trigger_id)
       ELSE
       LET reset == StartsNewCycle(trigger_id, FETCH_STATE.done, n_clicks)
           fs    == IF reset THEN NewCycle ELSE FETCH_STATE
           df    == IF reset THEN <<>> ELSE cached_df
           log1  == <<"triggered">>
                    \o (IF trigger_id # "btn-fetch" THEN <<>>
                        ELSE IF reset THEN <<"new_cycle">> ELSE <<"continuing">>)
           idx   == fs.current_index
           c0    == [Idle EXCEPT !.trigger = trigger_id, !.n_clicks = n_clicks,
                                 !.reset = reset, !.campus_ids = fs.campus_ids,
                                 !.idx = idx]
       IN  /\ cached_name' = IF reset THEN CsvName(role_val) ELSE cached_name
           /\ ideal' = IF reset THEN IdealStart ELSE ideal
           /\ IF fs.campus_ids = <<>>
              THEN \* "no active fetch cycle" (interval, empty cache) or "No campus IDs"
                   /\ FETCH_STATE' = fs
                   /\ cached_df' = df
                   /\ interval_disabled' = TRUE
                   /\ ret' = Returned(c0, FALSE, 0,
                                log1 \o (IF trigger_id = "auto-fetch-interval"
                                         THEN <<"no_active_cycle">> ELSE <<>>)
                                     \o (IF trigger_id = "auto-fetch-interval" /\ df = <<>>
                                         THEN <<>> ELSE <<"no_campus_ids">>))
                   /\ UNCHANGED calls
              ELSE IF ~fs.done /\ idx < Len(fs.campus_ids) /\ late # "before_fetch"
              THEN LET cid     == fs.campus_ids[idx + 1]
                       role_id == ROLE_ID_MAP(role_val)
                       url     == IF fs.next_url = NoUrl THEN BaseUrl(cid, role_id)
                                  ELSE fs.next_url
                       c       == [c0 EXCEPT !.cid = cid, !.url = url,
                                             !.log = log1 \o <<"campus_start">>]
                   IN  IF late = "in_chunk"
                       THEN FinishFetch(s, [c EXCEPT !.in_time = FALSE], fs, df,
                                        ChunkOutOfTime(url), FALSE)
                       ELSE /\ calls' = [calls EXCEPT ![s] = [c EXCEPT !.pc = "http"]]
                            /\ FETCH_STATE' = fs
                            /\ cached_df' = df
                            /\ ret' = Pending(c)
                            /\ UNCHANGED interval_disabled
              ELSE /\ FETCH_STATE' = fs
                   /\ cached_df' = df
                   /\ interval_disabled' = fs.done
                   /\ ret' = Returned([c0 EXCEPT !.in_time = fs.done], FALSE, 0,
                                log1 \o (IF fs.done THEN <<"already_complete">>
                                         ELSE <<"budget_exceeded">>)
                                     \o <<"no_new_rows">>)
                   /\ UNCHANGED calls

\* requests.get ends: the server answers, or the call raises
Answer(s, a) ==
    /\ calls[s].pc = "http"
    /\ a \in Attempts(calls[s].url)
    /\ calls' = [calls EXCEPT ![s].pc = "answered", ![s].attempt = a]
    /\ ideal' = IdealStep(ideal, calls[s].url, a)
    /\ UNCHANGED <<FETCH_STATE, cached_df, cached_name, ret, interval_disabled, fn>>

Finish_DrainsPages(s, in_time) ==
    /\ calls[s].pc = "answered"
    /\ LET c     == [calls[s] EXCEPT !.in_time = in_time]
           chunk == fetch_paginated_chunk(c.url, c.attempt)
       IN  IF chunk.raises
           THEN /\ ret' = Raised(c)
                /\ calls' = [calls EXCEPT ![s] = Idle]
                /\ UNCHANGED <<FETCH_STATE, cached_df, interval_disabled>>
           ELSE IF chunk.rows # <<>> /\ chunk.new_next # NoUrl /\ c.in_time
           THEN /\ FETCH_STATE' = AdvanceState(FETCH_STATE, c.idx, c.campus_ids,
                                               chunk.rows, chunk.new_next)
                /\ cached_df' = UpdateCachedDf(cached_df, FlattenRows(chunk.rows, c.cid))
                /\ calls' = [calls EXCEPT ![s].pc = "http",
                                          ![s].url = chunk.new_next,
                                          ![s].attempt = NoAttempt]
                /\ UNCHANGED <<ret, interval_disabled>>
           ELSE FinishFetch(s, c, FETCH_STATE, cached_df, chunk, TRUE)
    /\ UNCHANGED <<cached_name, ideal, fn>>

Finish_RetriesInside(s, in_time) ==
    /\ calls[s].pc = "answered"
    /\ LET c     == [calls[s] EXCEPT !.in_time = in_time]
           chunk == fetch_paginated_chunk(c.url, c.attempt)
       IN  IF chunk.raises
           THEN /\ ret' = Raised(c)
                /\ calls' = [calls EXCEPT ![s] = Idle]
                /\ UNCHANGED <<FETCH_STATE, cached_df, interval_disabled>>
           ELSE IF chunk.new_next = c.url /\ FETCH_STATE.next_url # c.url
           THEN /\ FETCH_STATE' = [FETCH_STATE EXCEPT !.next_url = c.url]
                /\ calls' = [calls EXCEPT ![s].pc = "http",
                                          ![s].attempt = NoAttempt]
                /\ UNCHANGED <<cached_df, ret, interval_disabled>>
           ELSE FinishFetch(s, c, FETCH_STATE, cached_df, chunk, TRUE)
    /\ UNCHANGED <<cached_name, ideal, fn>>

\* The invocation runs from the end of requests.get to its return.  in_time:
\* the clock is still before the invocation's deadline (MAX_FETCH_SECONDS
\* after its start) when it returns.
Finish(s, in_time) ==
    /\ calls[s].pc = "answered"
    /\ LET c     == [calls[s] EXCEPT !.in_time = in_time]
           chunk == fetch_paginated_chunk(c.url, c.attempt)
       IN  IF chunk.raises
           THEN /\ ret' = Raised(c)
                /\ calls' = [calls EXCEPT ![s] = Idle]
                /\ UNCHANGED <<FETCH_STATE, cached_df, interval_disabled>>
           ELSE FinishFetch(s, c, FETCH_STATE, cached_df, chunk, TRUE)
    /\ UNCHANGED <<cached_name, ideal, fn>>

\* The invocation gets as far as the test of its deadline (line 914 on):
\* it starts a cycle, or goes on with one that is not done
ReadsClock(trigger_id, n_clicks) ==
    \/ StartsNewCycle(trigger_id, FETCH_STATE.done, n_clicks)
    \/ /\ ~FETCH_STATE.done
       /\ FETCH_STATE.current_index < Len(FETCH_STATE.campus_ids)

\* The invocation reads role_val: for cached_name when it starts a cycle,
\* for base_url when no next_url is stored
ReadsRole(trigger_id, n_clicks) ==
    \/ StartsNewCycle(trigger_id, FETCH_STATE.done, n_clicks)
    \/ /\ ~FETCH_STATE.done
       /\ FETCH_STATE.current_index < Len(FETCH_STATE.campus_ids)
       /\ FETCH_STATE.next_url = NoUrl

\* A trigger arrives with its inputs while no invocation is running.  An
\* input the invocation does not read on its path is left at one value: the
\* click count of an interval tick, the role and the clock of an invocation
\* without token, the clock of one that does not reach its fetch step and
\* the role of one that builds neither cached_name nor base_url.
Trigger ==
    \E trigger_id \in Triggers, n_clicks \in 0..MaxClicks,
       role_val \in RoleVals, token \in BOOLEAN,
       late \in {"no", "before_fetch", "in_chunk"} :
         /\ \A t \in Slots : calls[t].pc = "idle"
         /\ IF trigger_id = "btn-fetch" THEN n_clicks >= 1 ELSE n_clicks = 0
         /\ ~token => role_val = "" /\ late = "no"
         /\ ~ReadsClock(trigger_id, n_clicks) => late = "no"
         /\ ~ReadsRole(trigger_id, n_clicks) => role_val = ""
         /\ Begin(1, trigger_id, n_clicks, role_val, token, late)

Reply ==
    \E s \in Slots :
        /\ calls[s].pc = "http"
        /\ \E a \in Attempts(calls[s].url) : Answer(s, a)

\* The clock at the return is drawn for the invocations that fetched a page
\* of rows; fetch_profiles does not read the clock after the call.
Return ==
    \E s \in Slots :
        /\ calls[s].pc = "answered"
        /\ \E in_time \in BOOLEAN :
              /\ in_time \/ (calls[s].attempt.status = 200 /\ calls[s].attempt.body_ok)
              /\ Finish(s, in_time)

Next == Trigger \/ Reply \/ Return

Spec == Init /\ [][Next]_vars

\* dcc.Interval fires while it is enabled: an interval tick arrives
Tick ==
    /\ ~interval_disabled
    /\ \A t \in Slots : calls[t].pc = "idle"
    /\ \E role_val \in RoleVals, token \in BOOLEAN,
          late \in {"no", "before_fetch", "in_chunk"} :
            /\ ~token => role_val = "" /\ late = "no"
            /\ Begin(1, "auto-fetch-interval", 0, role_val, token, late)

\* The scheduling of the program: an enabled interval goes on firing every
\* 3 s, requests.get ends (by its timeout at the latest) and the invocation
\* that got its answer runs to its return.
SpecLive == Spec /\ WF_vars(Tick) /\ WF_vars(Reply) /\ WF_vars(Return)

\* A trigger arrives whether or not an invocation is running: the server
\* starts the callback in the first free slot.  The triggers are those of a
\* signed-in user who leaves the role alone, within their time budget.
OverlapTrigger ==
    \E s \in Slots, trigger_id \in Triggers, n_clicks \in 0..MaxClicks :
         /\ \A t \in Slots : t < s => calls[t].pc # "idle"
         /\ FETCH_STATE.total_rows < MaxTotalRows
         /\ IF trigger_id = "btn-fetch" THEN n_clicks >= 1 ELSE n_clicks = 0
         /\ Begin(s, trigger_id, n_clicks, "", TRUE, "no")

\* The answers of a server that is slow but sound: a timeout, or a page of
\* one row.
OverlapAttempts(url) ==
    {a \in Attempts(url) :
        a.kind = "timeout" \/ (a.kind = "status" /\ a.body_ok /\ a.rows = <<"r1">>)}

OverlapReply ==
    \E s \in Slots :
        /\ calls[s].pc = "http"
        /\ \E a \in OverlapAttempts(calls[s].url) : Answer(s, a)

NextOverlap == OverlapTrigger \/ OverlapReply \/ Return

\* The program as the code leaves it: triggers are neither refused nor queued
SpecOverlap == Init /\ [][NextOverlap]_vars

\* The answers of a server none of whose answers is fatal: a page of rows,
\* or a failure the next trigger is to try again
SoundAttempts(url) ==
    {a \in Attempts(url) :
        \/ a.kind = "timeout"
        \/ a.kind = "status" /\ a.status \in RETRYABLE_STATUSES
        \/ a.kind = "status" /\ a.status = 200 /\ a.body_ok}

SoundReply ==
    \E s \in Slots :
        /\ calls[s].pc = "http"
        /\ \E a \in SoundAttempts(calls[s].url) : Answer(s, a)

NextSound == Trigger \/ SoundReply \/ Return

\* The runs in which no attempt is fatal
SpecSound == Init /\ [][NextSound]_vars

\* The one Fetch click of a session that is left to the interval afterwards:
\* the first click (n_clicks == 1) of a signed-in user, before any run
FirstClick ==
    /\ FETCH_STATE.campus_ids = <<>>
    /\ \A t \in Slots : calls[t].pc = "idle"
    /\ \E role_val \in RoleVals : Begin(1, "btn-fetch", 1, role_val, TRUE, "no")

\* An interval tick of a signed-in user that arrives within its time budget
TickSignedIn ==
    /\ ~interval_disabled
    /\ \A t \in Slots : calls[t].pc = "idle"
    /\ \E role_val \in RoleVals :
          Begin(1, "auto-fetch-interval", 0, role_val, TRUE, "no")

\* requests.get ends with a page of rows
GoodReply ==
    \E s \in Slots :
        /\ calls[s].pc = "http"
        /\ \E a \in Attempts(calls[s].url) :
              /\ a.kind = "status" /\ a.status = 200 /\ a.body_ok
              /\ Answer(s, a)

NextAuto == FirstClick \/ Tick \/ SoundReply \/ Return

\* One click, then the interval alone, with a server none of whose answers
\* is fatal.  An enabled interval goes on firing,
\* and again and again with a token; requests.get ends, and a request that
\* is repeated again and again gets its page; the invocation that got its
\* answer runs to its return.
SpecAuto ==
    /\ Init /\ [][NextAuto]_vars
    /\ WF_vars(Tick) /\ WF_vars(SoundReply) /\ WF_vars(Return)
    /\ SF_vars(TickSignedIn) /\ SF_vars(GoodReply)

----------------------------------------------------------------------------
(* The helper functions, each applied on its own to an argument *)

fetch_vars == <<FETCH_STATE, cached_df, cached_name, calls, ret, interval_disabled,
                ideal>>

\* The application before any fetch
NothingFetched ==
    /\ FETCH_STATE = [campus_ids |-> <<>>, current_index |-> 0, next_url |-> NoUrl,
                      done |-> TRUE, total_rows |-> 0]
    /\ cached_df = <<>>
    /\ cached_name = ""
    /\ calls = [s \in Slots |-> Idle]
    /\ ret = Returned(Idle, FALSE, 0, <<>>)
    /\ interval_disabled = TRUE
    /\ ideal = IdealStart

\* The call of the function called name with the argument arg
Call(name, arg) == [name |-> name, arg |-> arg, out |-> <<>>, returned |-> FALSE]

\* Strings are sequences of characters
Digits == <<"0", "1", "2", "3", "4", "5", "6", "7", "8", "9">>

\* str(n) of an int n in 0..99
str(n) ==
    IF n < 10 THEN <<Digits[n + 1]>>
    ELSE <<Digits[(n \div 10) + 1], Digits[(n % 10) + 1]>>

\* The values json.loads gives: None, an int, a list, a dict (its items in
\* order, each a key and a value)
JNull        == [t |-> "null", v |-> <<>>]
JInt(n)      == [t |-> "int",  v |-> <<n>>]
JList(items) == [t |-> "list", v |-> items]
JDict(items) == [t |-> "dict", v |-> items]
Item(k, v)   == [k |-> k, v |-> v]

MaxItems == 2    \* elements of a list in a raw record

\* The raw records flatten_json is applied to
Scalars == {JNull, JInt(1), JInt(2)}

Lists == {JList(l) : l \in UNION {[1..n -> Scalars] : n \in 0..MaxItems}}

InnerKeys == {<<"b">>}

InnerDicts ==
    {JDict(<<>>)} \cup {JDict(<<Item(k, v)>>) : k \in InnerKeys, v \in Scalars}

OuterKeys == {<<"a">>, <<"c">>, <<"a", ".", "b">>}

OuterItems == {Item(k, v) : k \in OuterKeys, v \in Scalars \cup Lists \cup InnerDicts}

RawRecords ==
    {JDict(<<>>)}
      \cup {JDict(<<p>>) : p \in OuterItems}
      \cup {JDict(pq) : pq \in {x \in OuterItems \X OuterItems : x[1].k # x[2].k}}

\* safe_str of None, of an int
safe_str(v) ==
    IF v.t = "null" THEN <<>> ELSE str(v.v[1])

\* "; ".join(strs)
RECURSIVE JoinSemi(_)
JoinSemi(strs) ==
    IF strs = <<>> THEN <<>>
    ELSE IF Len(strs) = 1 THEN strs[1]
    ELSE strs[1] \o <<";", " ">> \o JoinSemi(Tail(strs))

\* new_key = f"{prefix}{k}" if prefix == "" else f"{prefix}.{k}"
NewKey(prefix, k) ==
    IF prefix = <<>> THEN k ELSE prefix \o <<".">> \o k

\* flatten_json: a dict as the function from its keys to its values, built
\* by out.update in the order of the items (a later key replaces an equal
\* earlier one)
RECURSIVE flatten_json(_, _)
RECURSIVE FlattenItems(_, _, _)
flatten_json(data, prefix) ==
    IF data.t = "dict" THEN FlattenItems(data.v, prefix, Len(data.v))
    ELSE IF data.t = "list"
    THEN prefix :> JoinSemi([i \in 1..Len(data.v) |-> safe_str(data.v[i])])
    ELSE prefix :> safe_str(data)

\* out after the first n rounds of the loop over data.items()
FlattenItems(items, prefix, n) ==
    IF n = 0 THEN <<>>
    ELSE flatten_json(items[n].v, NewKey(prefix, items[n].k))
           @@ FlattenItems(items, prefix, n - 1)

InitFlatten ==
    /\ NothingFetched
    /\ \E data \in RawRecords : fn = Call("flatten_json", data)

ApplyFlatten ==
    /\ fn.name = "flatten_json"
    /\ ~fn.returned
    /\ fn' = [fn EXCEPT !.out = flatten_json(fn.arg, <<>>), !.returned = TRUE]
    /\ UNCHANGED fetch_vars

NextFlatten == ApplyFlatten

SpecFlatten == InitFlatten /\ [][NextFlatten]_vars

\* CARDING_MAP
CARDING_MAP ==
    <<<<"S", "R">>,
      <<"S", "R", "I">>,
      <<"S", "R", "1">>,
      <<"S", "R", "2">>,
      <<"D">>,
      <<"D", "I">>,
      <<"C", "1">>,
      <<"P", "r", "o", "v", " ", "D", "e", "v", " ", "1">>,
      <<"P", "r", "o", "v", " ", "D", "e", "v", " ", "2">>,
      <<"P", "r", "o", "v", " ", "D", "e", "v", " ", "3">>,
      <<"N", "S", "O", " ", "A", "f", "f", "i", "l", "i", "a", "t", "e", "d", " ", "(", "U", "n", "c", "a", "r", "d", "e", "d", ")">>,
      <<"C", "1", "I">>,
      <<"G", "a", "m", "e", "P", "l", "a", "n", " ", "R", "e", "t", "i", "r", "e", "d">>,
      <<"P", "S", "O", " ", "A", "f", "f", "i", "l", "i", "a", "t", "e", "d", " ", "(", "U", "n", "c", "a", "r", "d", "e", "d", ")">>,
      <<"G", "a", "m", "e", "P", "l", "a", "n", " ", "R", "e", "t", "i", "r", "e", "d">>,
      <<"P", "S", "O", " ", "A", "f", "f", "i", "l", "i", "a", "t", "e", "d", " ", "(", "U", "n", "c", "a", "r", "d", "e", "d", ")">>>>

\* s.strip(), the white space being the blank
RECURSIVE strip(_)
strip(s) ==
    IF s = <<>> THEN s
    ELSE IF Head(s) = " " THEN strip(Tail(s))
    ELSE IF s[Len(s)] = " " THEN strip(SubSeq(s, 1, Len(s) - 1))
    ELSE s

\* s.isdigit()
isdigit(s) ==
    /\ s # <<>>
    /\ \A i \in 1..Len(s) : \E d \in 1..10 : Digits[d] = s[i]

\* int(s) of a string of digits
RECURSIVE int(_)
int(s) ==
    IF s = <<>> THEN 0
    ELSE 10 * int(SubSeq(s, 1, Len(s) - 1))
           + (CHOOSE d \in 0..9 : Digits[d + 1] = s[Len(s)])

\* None where an int is expected: no int(s) of digits is negative
None == -1

\* _coerce_int of a string
coerce_int(val) ==
    LET s == strip(val) IN IF isdigit(s) THEN int(s) ELSE None

candidate_keys ==
    <<"carding_level", "carding_level_id", "carding.id", "carding_level.pk",
      "carding_pk", "athlete.carding_level_id", "profile.carding_level_id">>

\* d.setdefault(k, v)
setdefault(d, k, v) == IF k \in DOMAIN d THEN d ELSE (k :> v) @@ d

\* derive_carding_columns: the loop stops at the first candidate key whose
\* value is not empty and parses as an int
derive_carding_columns(flat) ==
    LET parsed   == {i \in 1..Len(candidate_keys) :
                       /\ candidate_keys[i] \in DOMAIN flat
                       /\ flat[candidate_keys[i]] # <<>>
                       /\ coerce_int(flat[candidate_keys[i]]) # None}
        first    == CHOOSE i \in parsed : \A j \in parsed : i <= j
        cand_val == coerce_int(flat[candidate_keys[first]])
    IN  IF parsed # {}
        THEN ("carding_level_id" :> str(cand_val))
               @@ ("carding_level_mapped" :>
                     IF cand_val \in DOMAIN CARDING_MAP THEN CARDING_MAP[cand_val]
                     ELSE <<"U", "n", "k", "n", "o", "w", "n", " ", "(">>
                            \o str(cand_val) \o <<")">>)
               @@ flat
        ELSE setdefault(setdefault(flat, "carding_level_id", <<>>),
                        "carding_level_mapped", <<>>)

\* The values the candidate keys have in the flat records: none, a mapped
\* code, one with blanks around, an unmapped number, a word
CodeStrings == {<<>>, <<"3">>, <<" ", "3">>, <<"1", "7">>, <<"a", "b">>}

\* The flat records derive_carding_columns is applied to
FlatRecords ==
    UNION {[keys -> CodeStrings] :
             keys \in SUBSET {candidate_keys[1], candidate_keys[2], candidate_keys[3]}}

InitCarding ==
    /\ NothingFetched
    /\ \E flat \in FlatRecords : fn = Call("derive_carding_columns", flat)

ApplyCarding ==
    /\ fn.name = "derive_carding_columns"
    /\ ~fn.returned
    /\ fn' = [fn EXCEPT !.out = derive_carding_columns(fn.arg), !.returned = TRUE]
    /\ UNCHANGED fetch_vars

NextCarding == ApplyCarding

SpecCarding == InitCarding /\ [][NextCarding]_vars

\* TEST_SPORTS: "Cinderball (TEST)", "Skimboarding Cross (TEST)"
TEST_SPORTS ==
    {<<"C", "i", "n", "d", "e", "r", "b", "a", "l", "l", " ", "(", "T", "E", "S", "T", ")">>,
     <<"S", "k", "i", "m", "b", "o", "a", "r", "d", "i", "n", "g", " ", "C", "r", "o", "s", "s", " ", "(", "T", "E", "S", "T", ")">>}

UpperCase == <<"A", "B", "C", "D", "E", "F", "G", "H", "I", "J", "K", "L", "M", "N", "O", "P", "Q", "R", "S", "T", "U", "V", "W", "X", "Y", "Z">>
LowerCase == <<"a", "b", "c", "d", "e", "f", "g", "h", "i", "j", "k", "l", "m", "n", "o", "p", "q", "r", "s", "t", "u", "v", "w", "x", "y", "z">>

\* s.lower()
lower(s) ==
    [i \in 1..Len(s) |->
        IF \E n \in 1..26 : UpperCase[n] = s[i]
        THEN LowerCase[CHOOSE n \in 1..26 : UpperCase[n] = s[i]]
        ELSE s[i]]

TEST_SPORTS_NORMALIZED == {lower(strip(s)) : s \in TEST_SPORTS}

\* sub in s
contains(s, sub) ==
    \E i \in 0..(Len(s) - Len(sub)) : SubSeq(s, i + 1, i + Len(sub)) = sub

\* A cell without value
NaN == <<"NaN">>

\* fillna("")
fillna(v) == IF v = NaN THEN <<>> ELSE v

\* A DataFrame: its columns and its rows, a row a function from the columns
DataFrame(columns, rows) == [columns |-> columns, rows |-> rows]

\* df.empty
empty(df) == df.rows = <<>> \/ df.columns = {}

SportColumns ==
    {"sport.name", "current_nomination.sport.name", "Sport", "Nomination Sport Name"}

\* One round of the loop of remove_test_sports: explicit | contains_test
\* for the cell v
MarksTest_ExplicitOnly(v) ==
    LET s == lower(strip(fillna(v)))
    IN  s \in TEST_SPORTS_NORMALIZED

MarksTest(v) ==
    LET s == lower(strip(fillna(v)))
    IN  s \in TEST_SPORTS_NORMALIZED \/ contains(s, lower(<<"(", "t", "e", "s", "t">>))

\* remove_test_sports
remove_test_sports(df) ==
    IF empty(df) THEN df
    ELSE LET cols    == SportColumns \cap df.columns
             mask(r) == \A col \in cols : ~MarksTest(r[col])
         IN  IF cols = {} THEN df
             ELSE [df EXCEPT !.rows = SelectSeq(df.rows, mask)]

\* The cells of the sport columns: a sport, the test sports as they are
\* listed and as they may be typed, a word with "test" in it, no value
SportCells ==
    {<<"R", "o", "w", "i", "n", "g">>,
     <<"C", "i", "n", "d", "e", "r", "b", "a", "l", "l", " ", "(", "T", "E", "S", "T", ")">>,
     <<" ", "J", "u", "d", "o", " ", "(", "T", "e", "s", "t", ")", " ">>,
     <<"C", "o", "n", "t", "e", "s", "t">>,
     NaN}

\* The frames with the columns cols that remove_test_sports is applied to:
\* none, one or two rows
SportFrames(cols) ==
    {DataFrame(cols, rows) :
        rows \in {<<>>} \cup {<<r>> : r \in [cols -> SportCells]}
                      \cup ([cols -> SportCells] \X [cols -> SportCells])}

InitSports ==
    /\ NothingFetched
    /\ \E cols \in SUBSET {"sport.name", "current_nomination.sport.name", "Sport"} :
          \E df \in SportFrames(cols) : fn = Call("remove_test_sports", df)

ApplySports ==
    /\ fn.name = "remove_test_sports"
    /\ ~fn.returned
    /\ fn' = [fn EXCEPT !.out = remove_test_sports(fn.arg), !.returned = TRUE]
    /\ UNCHANGED fetch_vars

NextSports == ApplySports

SpecSports == InitSports /\ [][NextSports]_vars

\* CAMPUS_LABEL_MAP of the campuses of the model
CAMPUS_LABEL_MAP ==
    <<<<"C", "S", "I", " ", "P", "a", "c", "i", "f", "i", "c", " ", "-", " ", "V", "i", "c", "t", "o", "r", "i", "a">>,
      <<"C", "S", "I", " ", "P", "a", "c", "i", "f", "i", "c", " ", "-", " ", "V", "a", "n", "c", "o", "u", "v", "e", "r">>>>

\* campus_val when no campus is chosen ("all", None): not an int
NoCampus == 0

\* apply_campus_filters
apply_campus_filters(df, campus_val, birth_campus_val, current_campus_val) ==
    LET label == CAMPUS_LABEL_MAP[campus_val]
        in_campus(r)  == r["campus_label"] = label
        by_birth(r)   == r["campus_by_birth"] = birth_campus_val
        by_current(r) == r["current_campus"] = current_campus_val
        out1 == IF campus_val \in DOMAIN CAMPUS_LABEL_MAP
                   /\ "campus_label" \in df.columns
                THEN [df EXCEPT !.rows = SelectSeq(df.rows, in_campus)] ELSE df
        out2 == IF birth_campus_val # <<>> /\ "campus_by_birth" \in out1.columns
                THEN [out1 EXCEPT !.rows = SelectSeq(out1.rows, by_birth)] ELSE out1
    IN  IF current_campus_val # <<>> /\ "current_campus" \in out2.columns
        THEN [out2 EXCEPT !.rows = SelectSeq(out2.rows, by_current)] ELSE out2

\* apply_campus_filters returns df itself (out = df) and not a new frame
campus_filters_return_df(df, campus_val, birth_campus_val, current_campus_val) ==
    /\ ~(campus_val \in DOMAIN CAMPUS_LABEL_MAP /\ "campus_label" \in df.columns)
    /\ ~(birth_campus_val # <<>> /\ "campus_by_birth" \in df.columns)
    /\ ~(current_campus_val # <<>> /\ "current_campus" \in df.columns)

\* remove_test_sports returns df itself (the two "return df") and not df[mask]
remove_test_sports_returns_df(df) ==
    empty(df) \/ SportColumns \cap df.columns = {}

\* astype(str) of a cell
astype_str(v) == IF v = NaN THEN <<"n", "a", "n">> ELSE v

\* merge_carding_columns: the frame as it is after the assignment df.loc[...]
merge_carding_columns(df) ==
    LET nom_col == "current_nomination.carding_level"
        map_col == "carding_level_mapped"
        nom(r)       == strip(astype_str(r[nom_col]))
        mapped(r)    == strip(astype_str(r[map_col]))
        nom_clean(r) == IF nom(r) = <<"n", "a", "n">> THEN <<>> ELSE nom(r)
        fill_mask(r) == nom_clean(r) = <<>> /\ mapped(r) # <<>>
    IN  IF nom_col \notin df.columns \/ map_col \notin df.columns THEN df
        ELSE [df EXCEPT !.rows =
                [i \in 1..Len(df.rows) |->
                    IF fill_mask(df.rows[i])
                    THEN [df.rows[i] EXCEPT ![nom_col] = mapped(df.rows[i])]
                    ELSE df.rows[i]]]

\* The category add_level_category_column gives to the level val
level_category(val) ==
    LET lv == lower(val)
    IN  IF lv \in {<<"p", "r", "o", "v", " ", "d", "e", "v", " ", "1">>,
               <<"p", "r", "o", "v", " ", "d", "e", "v", " ", "2">>,
               <<"p", "r", "o", "v", " ", "d", "e", "v", " ", "3">>}
        THEN <<"P", "r", "o", "v", "i", "n", "c", "i", "a", "l", " ", "D", "e", "v", "e", "l", "o", "p", "m", "e", "n", "t">>
        ELSE IF contains(lv, <<"n", "s", "o", " ", "a", "f", "f", "i", "l", "i", "a", "t", "e", "d">>)
                /\ contains(lv, <<"u", "n", "c", "a", "r", "d", "e", "d">>)
        THEN <<"C", "a", "n", "a", "d", "i", "a", "n", " ", "D", "e", "v", "e", "l", "o", "p", "m", "e", "n", "t">>
        ELSE IF lv \in {<<"s", "r">>,
               <<"s", "r", "1">>,
               <<"s", "r", "2">>,
               <<"c">>,
               <<"c", "1">>,
               <<"d">>,
               <<"s", "r", "i">>,
               <<"d", "i">>,
               <<"c", "1", "i">>}
        THEN <<"C", "a", "n", "a", "d", "i", "a", "n", " ", "E", "l", "i", "t", "e">>
        ELSE IF contains(lv, <<"p", "s", "o", " ", "a", "f", "f", "i", "l", "i", "a", "t", "e", "d">>)
        THEN <<"P", "S", "O", " ", "A", "f", "f", "i", "l", "i", "a", "t", "e", "d", " ", "(", "N", "o", "n", " ", "C", "a", "r", "d", "e", "d", ")">>
        ELSE <<>>

\* add_level_category_column: the frame as it is after df["level_category"] = ...
add_level_category_column(df) ==
    LET nom_col == "current_nomination.carding_level"
        cat(r)  == IF nom_col \in df.columns
                   THEN level_category(strip(astype_str(r[nom_col])))
                   ELSE <<>>
    IN  [columns |-> df.columns \cup {"level_category"},
         rows    |-> [i \in 1..Len(df.rows) |->
                        ("level_category" :> cat(df.rows[i])) @@ df.rows[i]]]

\* FILTER_COLUMNS, as far as the frames of the model have them
FILTER_COLUMNS ==
    {"sport.name", "current_enrollment.admin_status", "current_nomination.redeemed",
     "current_nomination.carding_level", "campus_label", "campus_by_birth",
     "current_campus", "carding_level_mapped", "level_category"}

\* df[fields]
Project(df, fields) ==
    [columns |-> fields,
     rows    |-> [i \in 1..Len(df.rows) |-> [c \in fields |-> df.rows[i][c]]]]

NoView == DataFrame({}, <<>>)

\* update_filtered_preview and download_filtered_csv on the store cached:
\* what cached_df is afterwards, and the frame shown or sent (before its
\* columns are renamed).  df_out is cached_df itself as long as every step
\* returns its argument, and the two last steps assign into df_out.
FilteredView(name, cached, campus_val, birth_campus_val, current_campus_val, enrollment_status_vals, nomination_claimed_vals) ==
    LET df1   == apply_campus_filters(cached, campus_val, birth_campus_val,
                                      current_campus_val)
        same1 == campus_filters_return_df(cached, campus_val, birth_campus_val,
                                          current_campus_val)
        by_status(r) ==
            astype_str(r["current_enrollment.admin_status"]) \in enrollment_status_vals
        enrol == enrollment_status_vals # {}
                   /\ "current_enrollment.admin_status" \in df1.columns
        df2   == IF enrol THEN [df1 EXCEPT !.rows = SelectSeq(df1.rows, by_status)] ELSE df1
        by_claimed(r) ==
            astype_str(r["current_nomination.redeemed"]) \in nomination_claimed_vals
        claim == nomination_claimed_vals # {}
                   /\ "current_nomination.redeemed" \in df2.columns
        df3   == IF claim THEN [df2 EXCEPT !.rows = SelectSeq(df2.rows, by_claimed)] ELSE df2
        df4   == remove_test_sports(df3)
        same4 == same1 /\ ~enrol /\ ~claim /\ remove_test_sports_returns_df(df3)
        df_out == add_level_category_column(merge_carding_columns(df4))
        fields == FILTER_COLUMNS \cap df_out.columns
    IN  IF empty(cached) THEN [cached_df |-> cached, view |-> NoView]
        ELSE [cached_df |-> IF same4 THEN df_out ELSE cached,
              view      |-> IF name = "update_filtered_preview" /\ empty(df_out)
                            THEN NoView
                            ELSE IF fields = {} THEN NoView
                            ELSE Project(df_out, fields)]

\* The two cells a column has in the stores of the model
CellsOf(col) ==
    IF col = "campus_label" THEN <<CAMPUS_LABEL_MAP[1], CAMPUS_LABEL_MAP[2]>>
    ELSE IF col = "current_enrollment.admin_status"
    THEN <<<<"a", "c", "t", "i", "v", "e">>,
           <<"i", "n", "a", "c", "t", "i", "v", "e">>>>
    ELSE IF col = "sport.name"
    THEN <<<<"R", "o", "w", "i", "n", "g">>,
           <<"C", "i", "n", "d", "e", "r", "b", "a", "l", "l", " ", "(", "T", "E", "S", "T", ")">>>>
    ELSE IF col = "current_nomination.carding_level" THEN <<NaN, CARDING_MAP[1]>>
    ELSE <<<<>>, CARDING_MAP[8]>>

StoreColumns ==
    {"campus_label", "current_enrollment.admin_status", "sport.name",
     "current_nomination.carding_level", "carding_level_mapped"}

RowsOver(cols) ==
    {[c \in cols |-> CellsOf(c)[pick[c]]] : pick \in [cols -> {1, 2}]}

\* The stores with the columns cols: none, one or two rows
Stores(cols) ==
    {DataFrame(cols, rows) :
        rows \in {<<>>} \cup {<<r>> : r \in RowsOver(cols)}
                      \cup (RowsOver(cols) \X RowsOver(cols))}

InitView ==
    /\ NothingFetched
    /\ \E name \in {"update_filtered_preview", "download_filtered_csv"},
          cols \in SUBSET StoreColumns, campus_val \in {NoCampus, 1},
          enrollment_status_vals \in {{}, {<<"a", "c", "t", "i", "v", "e">>}} :
            \E cached \in Stores(cols) :
              fn = Call(name, [cached_df |-> cached, campus_val |-> campus_val,
                               enrollment_status_vals |-> enrollment_status_vals])

ApplyView ==
    /\ fn.name \in {"update_filtered_preview", "download_filtered_csv"}
    /\ ~fn.returned
    /\ fn' = [fn EXCEPT !.out = FilteredView(fn.name, fn.arg.cached_df,
                                             fn.arg.campus_val, <<>>, <<>>,
                                             fn.arg.enrollment_status_vals, {}),
                        !.returned = TRUE]
    /\ UNCHANGED fetch_vars

NextView == ApplyView

SpecView == InitView /\ [][NextView]_vars

----------------------------------------------------------------------------
(* Properties *)

AllIdle == \A s \in Slots : calls[s].pc = "idle"

InFlight(s) == calls[s].pc \in {"http", "answered"}

\* Position of a campus id in CAMPUS_OPTS, from 0
PosOf(cid) == (CHOOSE i \in 1..NumCampuses : CampusValues[i] = cid) - 1

\* C1: no interleaving of sources.  A request in flight is for the campus
\* campus_ids[current_index], so every campus before it has been marked
\* exhausted, and no row in cached_df carries the id of a campus after
\* current_index.
C1_NoInterleaving ==
    /\ \A s \in Slots : InFlight(s) =>
          /\ FETCH_STATE.current_index < Len(FETCH_STATE.campus_ids)
          /\ calls[s].url.cid = FETCH_STATE.campus_ids[FETCH_STATE.current_index + 1]
          /\ calls[s].cid = calls[s].url.cid
          /\ \A i \in 0..(PosOf(calls[s].url.cid) - 1) : FETCH_STATE.current_index > i
    /\ \A k \in 1..Len(cached_df) :
          \A i \in 0..(PosOf(cached_df[k].campus_id) - 1) : FETCH_STATE.current_index > i

\* C1 witness: a page of the second campus is requested while rows of the
\* first campus are in the store
C1_Witness ==
    /\ calls[1].pc = "http"
    /\ calls[1].url.cid = CampusValues[2]
    /\ \E k \in 1..Len(cached_df) : cached_df[k].campus_id = CampusValues[1]

\* A step in which a trigger arrives at fetch_profiles with a token
Begins(trigger_id) ==
    /\ calls[1].pc = "idle"
    /\ \/ calls'[1].pc = "http" /\ calls'[1].trigger = trigger_id
       \/ /\ calls'[1].pc = "idle"
          /\ ret' # ret
          /\ ret'.trigger = trigger_id
          /\ ret'.log # <<"no_token">>

\* A step in which a Fetch click arrives and its page request is sent
ClickSendsRequest ==
    /\ calls[1].pc = "idle"
    /\ calls'[1].pc = "http"
    /\ calls'[1].trigger = "btn-fetch"

FreshRun ==
    /\ FETCH_STATE'.current_index = 0
    /\ FETCH_STATE'.next_url = NoUrl
    /\ FETCH_STATE'.done = FALSE
    /\ FETCH_STATE'.total_rows = 0
    /\ cached_df' = <<>>

\* C2 as claimed: every Fetch click, whatever FETCH_STATE held and whatever
\* its click count, has the run freshly initialised when its page request
\* is sent.
C2_EveryClickResets == [][ClickSendsRequest => FreshRun]_vars

\* C2 amended: a Fetch click that arrives when done is true, or with a click
\* count of at most 1, has the run freshly initialised when its page request
\* is sent; a click with a count above 1 on an unfinished run resets nothing.
C2_ClickResetsWhenDoneOrFirst ==
    [][ClickSendsRequest =>
         IF FETCH_STATE.done \/ calls'[1].n_clicks <= 1
         THEN FreshRun
         ELSE FETCH_STATE' = FETCH_STATE /\ cached_df' = cached_df]_vars

\* C2 witness: a first click has superseded a run that was not finished (the
\* interval was left enabled by the run's last return) and is about to fetch
C2_Witness ==
    /\ calls[1].pc = "http"
    /\ calls[1].trigger = "btn-fetch"
    /\ calls[1].reset
    /\ calls[1].n_clicks = 1
    /\ ~interval_disabled
    /\ FETCH_STATE = NewCycle
    /\ cached_df = <<>>

\* C3: an interval tick that arrives on a finished run sends no request,
\* adds no row and leaves FETCH_STATE and cached_df as they were.
C3_TickOnDoneIsNoOp ==
    [][(calls[1].pc = "idle" /\ FETCH_STATE.done /\ ret' # ret
          /\ ret'.trigger = "auto-fetch-interval")
        => /\ FETCH_STATE' = FETCH_STATE
           /\ cached_df' = cached_df
           /\ calls'[1].pc = "idle"
           /\ ~ret'.requested
           /\ ret'.added = 0]_vars

\* C3 witness: a tick has run on a finished cycle that holds rows
C3_Witness ==
    /\ AllIdle
    /\ FETCH_STATE.done
    /\ FETCH_STATE.campus_ids # <<>>
    /\ cached_df # <<>>
    /\ ret.trigger = "auto-fetch-interval"
    /\ ret.log = <<"triggered", "already_complete", "no_new_rows">>

\* C4: between invocations, done holds exactly when current_index is past
\* the last campus, and current_index is the number of campuses whose last
\* page (or fatal answer) the server has given: the first campus not exhausted.
C4_DoneIffAllExhausted ==
    AllIdle =>
        /\ FETCH_STATE.done <=> FETCH_STATE.current_index >= Len(FETCH_STATE.campus_ids)
        /\ FETCH_STATE.current_index <= Len(FETCH_STATE.campus_ids)
        /\ FETCH_STATE.campus_ids # <<>> => FETCH_STATE.current_index = ideal.pos[1]

\* C4 witness: a cycle over all campuses has just finished
C4_Witness ==
    /\ AllIdle
    /\ FETCH_STATE.done
    /\ FETCH_STATE.current_index = NumCampuses
    /\ ret.log # <<>> /\ ret.log[Len(ret.log)] = "all_complete"

\* C5: resumability.  Whatever triggers did nothing and whatever attempts
\* met a failure to be tried again, every request asks the server for the
\* page an uninterrupted fetch would ask for next, and between invocations
\* cached_df holds the rows that fetch would hold; so it does when done.
C5_Resumable ==
    /\ \A s \in Slots : calls[s].pc = "http" =>
          /\ ideal.pos[1] < NumCampuses
          /\ calls[s].url.cid = CampusValues[ideal.pos[1] + 1]
          /\ calls[s].url.page = ideal.pos[2]
    /\ AllIdle => cached_df = ideal.store
    /\ (AllIdle /\ FETCH_STATE.done /\ FETCH_STATE.campus_ids # <<>>) =>
          ideal.pos[1] = NumCampuses

\* C5 witness: a run that met a retryable failure is done, with rows
C5_Witness ==
    /\ AllIdle
    /\ FETCH_STATE.done
    /\ ideal.retried
    /\ Len(cached_df) >= 2
    /\ ideal.pos[1] = NumCampuses

\* A step in which an invocation goes on after a retryable failure of its GET
FinishesTransient ==
    /\ calls[1].pc = "answered"
    /\ calls'[1].pc = "idle"
    /\ Transient(calls[1].attempt)

\* A step in which a trigger that starts no new cycle sends its request
ContinuingRequest ==
    /\ calls[1].pc = "idle"
    /\ calls'[1].pc = "http"
    /\ ~calls'[1].reset

\* C6: after a timeout, a connection error or a retryable status the
\* invocation adds no row, leaves current_index, done and total_rows as they
\* were and stores the URL it asked for; and an invocation that goes on with
\* the run asks for the stored URL, for the campus it belongs to.
C6_RetryableKeepsPosition ==
    [][/\ FinishesTransient =>
            /\ cached_df' = cached_df
            /\ ret'.added = 0
            /\ FETCH_STATE'.current_index = FETCH_STATE.current_index
            /\ FETCH_STATE'.done = FETCH_STATE.done
            /\ FETCH_STATE'.total_rows = FETCH_STATE.total_rows
            /\ FETCH_STATE'.campus_ids = FETCH_STATE.campus_ids
            /\ FETCH_STATE'.next_url = calls[1].url
       /\ (ContinuingRequest /\ FETCH_STATE.next_url # NoUrl) =>
            /\ calls'[1].url = FETCH_STATE.next_url
            /\ calls'[1].cid = FETCH_STATE.next_url.cid
            /\ calls'[1].idx = FETCH_STATE.current_index]_vars

\* C6 witness: the second page of a campus met a retryable status and the
\* next tick is asking for that page again
C6_Witness ==
    /\ calls[1].pc = "http"
    /\ calls[1].trigger = "auto-fetch-interval"
    /\ ideal.retried
    /\ calls[1].url = FETCH_STATE.next_url
    /\ calls[1].url.page = 2
    /\ FETCH_STATE.total_rows > 0

\* C7 as claimed: after every invocation no two rows of cached_df are equal
\* in every column.
C7_NoDuplicateRows ==
    AllIdle => \A i, j \in 1..Len(cached_df) : i # j => cached_df[i] # cached_df[j]

\* A step that starts no new cycle
NoResetStep == ~(calls[1].pc = "idle" /\ ret' # ret /\ ret'.reset)

\* C8 as claimed: from one invocation of a run to the next every row of
\* cached_df stays and the number of rows does not go down.
C8_MonotonicGrowth ==
    [][NoResetStep =>
         /\ \A k \in 1..Len(cached_df) :
               \E m \in 1..Len(cached_df') : cached_df'[m] = cached_df[k]
         /\ Len(cached_df') >= Len(cached_df)]_vars

\* The HTTP answer of the invocation is a page of rows
AnsweredPage(s) ==
    /\ calls[s].pc = "answered"
    /\ calls[s].attempt.kind = "status"
    /\ calls[s].attempt.status = 200
    /\ calls[s].attempt.body_ok

\* C9 as claimed: appending the rows of a page a second time leaves the
\* number of rows of cached_df as the first append left it, whatever the
\* store held before the first append, empty included.
C9_AppendTwiceSameSize ==
    \A s \in Slots : AnsweredPage(s) =>
        LET page  == FlattenRows(calls[s].attempt.rows, calls[s].cid)
            once  == UpdateCachedDf(cached_df, page)
            twice == UpdateCachedDf(once, page)
        IN  Len(twice) = Len(once)

\* C10 as claimed: no exception leaves fetch_profiles, whatever the GET did.
C10_NoExceptionEscapes == ~ret.raised

\* The URLs a request of the run can ask for
Urls ==
    {[cid |-> CampusValues[i], role_id |-> ROLE_ID_MAP(r), page |-> p] :
        i \in 1..NumCampuses, r \in RoleVals, p \in 1..MaxPages}

\* The unfinished run stands at campus index idx with the stored URL url
HeldAt(idx, url) ==
    /\ FETCH_STATE.campus_ids # <<>>
    /\ ~FETCH_STATE.done
    /\ FETCH_STATE.current_index = idx
    /\ FETCH_STATE.next_url = url

\* An attempt has just met a timeout, a connection error or a retryable status
RetryableAnswered ==
    \E s \in Slots : calls[s].pc = "answered" /\ Transient(calls[s].attempt)

\* C11 as claimed: the attempts at one page are bounded over the life of the
\* run.  A run that stays at one cursor for ever stops attempting that page:
\* from some point on no attempt meets a retryable failure any more.
C11_BoundedRetry ==
    \A idx \in 0..(NumCampuses - 1) : \A url \in Urls :
        <>[]HeldAt(idx, url) => <>[]~RetryableAnswered

\* A step in which fetch_profiles returns for want of a token
ReturnsNoToken(trigger_id) ==
    /\ AllIdle
    /\ ret'.log = <<"no_token">>
    /\ ret'.trigger = trigger_id

\* C12: an invocation that finds no token, by the Fetch button or by an
\* interval tick, sends no request, attempts no campus and leaves the five
\* fields of FETCH_STATE, cached_df and cached_name as they were.
C12_NoTokenChangesNothing ==
    [][\A trigger_id \in Triggers : ReturnsNoToken(trigger_id) =>
          /\ FETCH_STATE' = FETCH_STATE
          /\ cached_df' = cached_df
          /\ cached_name' = cached_name
          /\ \A s \in Slots : calls'[s].pc = "idle"
          /\ ~ret'.requested
          /\ ret'.added = 0]_vars

\* C12 witness: a Fetch click without token has returned in the middle of
\* a run that holds rows and has a stored cursor
C12_Witness ==
    /\ AllIdle
    /\ ret.log = <<"no_token">>
    /\ ret.trigger = "btn-fetch"
    /\ ~FETCH_STATE.done
    /\ FETCH_STATE.next_url # NoUrl
    /\ cached_df # <<>>

\* The server refuses the token of the request
CredentialFailure(a) == a.kind = "status" /\ a.status \in {401, 403}

\* C13 as claimed: an invocation whose GET is answered 401 or 403 ends
\* without marking a campus exhausted: current_index and done stay as they
\* were.
C13_CredentialFailureKeepsSource ==
    [][(/\ calls[1].pc = "answered"
        /\ CredentialFailure(calls[1].attempt)
        /\ calls'[1].pc = "idle")
       => /\ FETCH_STATE'.current_index = FETCH_STATE.current_index
          /\ FETCH_STATE'.done = FETCH_STATE.done]_vars

\* An exception that is no timeout and no connection error, or a status
\* outside 2xx that is not on the retry list
FatalAttempt(a) ==
    \/ a.kind = "exception"
    \/ /\ a.kind = "status"
       /\ a.status \notin 200..299
       /\ a.status \notin {502, 503, 504, 524}

\* A step in which the invocation runs from its answer to its return
Returns ==
    /\ calls[1].pc = "answered"
    /\ calls'[1].pc = "idle"

\* C14: the attempt is treated as retryable (the URL asked for is stored and
\* the campus kept) exactly when it met a timeout, a connection error or one
\* of the statuses 502, 503, 504, 524; every other exception of requests.get
\* and every other status outside 2xx is fatal (the campus is given up:
\* next_url None, current_index one up, no row added).  Nothing but the
\* attempt decides: the formula holds for every campus and every history.
C14_ClassifiedByAttemptOnly ==
    [][Returns =>
         LET a == calls[1].attempt
         IN  /\ Transient(a) <=>
                  /\ ~ret'.raised
                  /\ FETCH_STATE'.next_url = calls[1].url
                  /\ FETCH_STATE'.current_index = calls[1].idx
             /\ FatalAttempt(a) =>
                  /\ ~ret'.raised
                  /\ FETCH_STATE'.next_url = NoUrl
                  /\ FETCH_STATE'.current_index = calls[1].idx + 1
                  /\ ret'.added = 0]_vars

\* C14 witness: the second campus, asked for its first page a second time
\* after a retryable failure, has answered with a fatal status
C14_Witness ==
    /\ calls[1].pc = "answered"
    /\ FatalAttempt(calls[1].attempt)
    /\ calls[1].idx = 1
    /\ calls[1].url.page = 1
    /\ FETCH_STATE.next_url = calls[1].url

\* The answer is a page of rows without a link to a next page
LastPage(a) ==
    a.kind = "status" /\ a.status = 200 /\ a.body_ok /\ ~a.has_next

\* C15: an invocation whose attempt is a page with no next link, or is
\* fatal, returns with every row of the page in cached_df under the id of
\* the campus asked and every earlier row still there, current_index one up,
\* next_url None, and done true exactly when that was the last campus; after
\* a fatal attempt cached_df is as it was.
C15_ExhaustionStep ==
    [][(Returns /\ (LastPage(calls[1].attempt) \/ FatalAttempt(calls[1].attempt)))
       => /\ FETCH_STATE'.current_index = FETCH_STATE.current_index + 1
          /\ FETCH_STATE'.next_url = NoUrl
          /\ FETCH_STATE'.campus_ids = FETCH_STATE.campus_ids
          /\ FETCH_STATE'.done <=>
                FETCH_STATE.current_index + 1 = Len(FETCH_STATE.campus_ids)
          /\ \A k \in 1..Len(calls[1].attempt.rows) :
                \E m \in 1..Len(cached_df') :
                   cached_df'[m] = [rec |-> calls[1].attempt.rows[k],
                                    campus_id |-> calls[1].url.cid]
          /\ \A k \in 1..Len(cached_df) :
                \E m \in 1..Len(cached_df') : cached_df'[m] = cached_df[k]
          /\ FatalAttempt(calls[1].attempt) => cached_df' = cached_df]_vars

\* C15 witness: the first campus, with rows of its first page in the store,
\* has met a fatal attempt on its second page and the run has moved to the
\* second campus without being done
C15_Witness ==
    /\ AllIdle
    /\ \E k \in 1..Len(ret.log) : ret.log[k] \in {"http_error", "unexpected_error"}
    /\ FETCH_STATE.current_index = 1
    /\ FETCH_STATE.next_url = NoUrl
    /\ ~FETCH_STATE.done
    /\ cached_df # <<>>

\* C16 as claimed: an invocation that has fetched a page of rows does not
\* return while the run is not done and its deadline has not passed: it
\* returns from a page fetched in time only with done true.
C16_DrainsUntilDeadline ==
    [][(Returns /\ AnsweredPage(1) /\ ret'.in_time) => FETCH_STATE'.done]_vars

\* C16 amended: an invocation fetches one page and returns, whatever time
\* is left: after a page of rows it stores the cursor (the next link, or the
\* next campus) and sends no further request; the interval is left enabled
\* exactly when the run is not done, so that the next page is fetched by the
\* next trigger.
C16_OnePagePerInvocation ==
    [][(calls[1].pc = "answered" /\ AnsweredPage(1))
       => /\ calls'[1].pc = "idle"
          /\ ret'.requested
          /\ ret'.added = Len(calls[1].attempt.rows)
          /\ interval_disabled' = FETCH_STATE'.done
          /\ IF calls[1].attempt.has_next
             THEN /\ FETCH_STATE'.next_url = NextLink(calls[1].url)
                  /\ FETCH_STATE'.current_index = FETCH_STATE.current_index
                  /\ ~FETCH_STATE'.done
             ELSE /\ FETCH_STATE'.next_url = NoUrl
                  /\ FETCH_STATE'.current_index = FETCH_STATE.current_index + 1]_vars

\* C16 witness: an invocation has returned after one page of rows that has
\* a next link, with the run not done and the interval enabled
C16_Witness ==
    /\ AllIdle
    /\ ret.requested
    /\ ret.added > 0
    /\ \E k \in 1..Len(ret.log) : ret.log[k] = "more_pages"
    /\ FETCH_STATE.next_url # NoUrl
    /\ FETCH_STATE.next_url.page = 2
    /\ ~FETCH_STATE.done
    /\ ~interval_disabled

\* The invocation returned without a request because its deadline had
\* passed: before the fetch step, or inside fetch_paginated_chunk
OutOfTime(r) ==
    \/ \E k \in 1..Len(r.log) : r.log[k] = "budget_exceeded"
    \/ /\ \E k \in 1..Len(r.log) : r.log[k] = "campus_start"
       /\ \A k \in 1..Len(r.log) :
             r.log[k] \notin {"timeout_error", "unexpected_error", "retryable",
                              "http_error", "fetched"}

\* C17: a request is sent only by a trigger that arrives, so an invocation
\* sends one request at most; whatever the answer (a timeout and an error
\* included) the invocation returns at once, without a second request; and
\* an invocation that finds its deadline passed returns without a request.
C17_OneRequestPerTrigger ==
    [][/\ calls'[1].pc = "http" => calls[1].pc = "idle"
       /\ calls[1].pc = "answered" => calls'[1].pc = "idle"
       /\ (calls'[1].pc = "idle" /\ OutOfTime(ret')) => ~ret'.requested]_vars

\* C17 witness: an invocation has returned after its one request met a
\* timeout, with the page still to be fetched
C17_Witness ==
    /\ AllIdle
    /\ ret.requested
    /\ \E k \in 1..Len(ret.log) : ret.log[k] = "timeout_error"
    /\ FETCH_STATE.next_url # NoUrl
    /\ ~FETCH_STATE.done

\* C18 as claimed: every first-page request of a run carries the role
\* filter selected by the click that started the run (the role cached_name
\* was built from), whatever role the trigger that sends it carries.
C18_RoleFixedAtStart ==
    \A s \in Slots : (calls[s].pc = "http" /\ calls[s].url.page = 1) =>
        \A role_val \in RoleVals :
            cached_name = CsvName(role_val) =>
                calls[s].url.role_id = ROLE_ID_MAP(role_val)

\* C19 as claimed: at no time are two invocations of fetch_profiles running.
C19_NoOverlap ==
    \A s, t \in Slots : (calls[s].pc # "idle" /\ calls[t].pc # "idle") => s = t

\* C20 as claimed: when a run in which no attempt was fatal is done,
\* cached_df holds one row and no more for each distinct record the pages of
\* the campuses have served, under the id of the campus whose query
\* returned it: no row twice, and the rows of the uninterrupted fetch.
C20_CompleteAndLabelled ==
    (AllIdle /\ FETCH_STATE.done /\ FETCH_STATE.campus_ids # <<>>) =>
        /\ \A i, j \in 1..Len(cached_df) : i # j => cached_df[i] # cached_df[j]
        /\ {cached_df[k] : k \in 1..Len(cached_df)}
             = {ideal.store[k] : k \in 1..Len(ideal.store)}
        /\ ideal.pos[1] = NumCampuses

\* The request of the invocation that has just started is the one the
\* saved cursor asks for
FromSavedCursor ==
    /\ calls'[1].idx = FETCH_STATE.current_index
    /\ calls'[1].url.cid = FETCH_STATE.campus_ids[FETCH_STATE.current_index + 1]
    /\ FETCH_STATE.next_url # NoUrl => calls'[1].url = FETCH_STATE.next_url
    /\ FETCH_STATE.next_url = NoUrl => calls'[1].url.page = 1

\* C26 as claimed: while done is false a Fetch click resets nothing, whatever
\* its click count: FETCH_STATE and cached_df are as they were when its
\* request is sent, and the request is the one the saved cursor asks for.
C26_ClickContinuesActiveCycle ==
    [][(ClickSendsRequest /\ ~FETCH_STATE.done) =>
         /\ FETCH_STATE' = FETCH_STATE
         /\ cached_df' = cached_df
         /\ FromSavedCursor]_vars

\* C26 amended: while done is false a Fetch click with a click count above 1
\* resets nothing and asks for the page of the saved cursor; a click with a
\* count of at most 1 (the first click of a browser session) starts the run
\* afresh and asks for the first page of the first campus.
C26_LaterClickContinues ==
    [][(ClickSendsRequest /\ ~FETCH_STATE.done) =>
         IF calls'[1].n_clicks > 1
         THEN /\ ~calls'[1].reset
              /\ FETCH_STATE' = FETCH_STATE
              /\ cached_df' = cached_df
              /\ FromSavedCursor
         ELSE /\ calls'[1].reset
              /\ FreshRun
              /\ calls'[1].idx = 0
              /\ calls'[1].url.page = 1]_vars

\* C26 witness: a click with a count of 2 on a run that holds rows and a
\* stored cursor has sent the request for the stored URL
C26_Witness ==
    /\ calls[1].pc = "http"
    /\ calls[1].trigger = "btn-fetch"
    /\ calls[1].n_clicks = 2
    /\ ~calls[1].reset
    /\ calls[1].url = FETCH_STATE.next_url
    /\ FETCH_STATE.total_rows > 0
    /\ cached_df # <<>>

\* C27: between resets current_index never goes down and goes up by one at
\* most in a step; it stays between 0 and len(campus_ids); and a request in
\* flight is for the campus at current_index, never for one before it.
C27_ExhaustionIsPermanent ==
    /\ [](/\ FETCH_STATE.current_index >= 0
          /\ FETCH_STATE.current_index <= Len(FETCH_STATE.campus_ids)
          /\ \A s \in Slots : InFlight(s) =>
                PosOf(calls[s].url.cid) = FETCH_STATE.current_index)
    /\ [][NoResetStep =>
            \/ FETCH_STATE'.current_index = FETCH_STATE.current_index
            \/ FETCH_STATE'.current_index = FETCH_STATE.current_index + 1]_vars

\* C27 witness: with the first campus exhausted, an invocation has met a
\* retryable failure at the second and left current_index at 1
C27_Witness ==
    /\ AllIdle
    /\ ret.requested
    /\ ~ret.reset
    /\ \E k \in 1..Len(ret.log) : ret.log[k] = "retryable"
    /\ FETCH_STATE.current_index = 1
    /\ FETCH_STATE.next_url # NoUrl
    /\ FETCH_STATE.next_url.cid = CampusValues[2]

C29_RunCompletesByTicks ==
    (FETCH_STATE.campus_ids # <<>>) ~> FETCH_STATE.done

\* C30: whatever the interleaving of overlapping invocations, a stored
\* next_url is a URL of the campus at current_index, and an invocation in
\* flight asks for the pages of the campus whose campus_id it will put on the
\* rows.
C30_CursorPairedWithSource ==
    /\ FETCH_STATE.next_url # NoUrl =>
          /\ FETCH_STATE.current_index < Len(FETCH_STATE.campus_ids)
          /\ FETCH_STATE.next_url.cid =
                FETCH_STATE.campus_ids[FETCH_STATE.current_index + 1]
    /\ \A s \in Slots : InFlight(s) => calls[s].url.cid = calls[s].cid

\* The leaves of a raw record, each with the keys that lead to it: the
\* scalars and the lists
RECURSIVE Leaves(_, _)
Leaves(data, path) ==
    IF data.t = "dict"
    THEN UNION {Leaves(data.v[i].v, Append(path, data.v[i].k)) : i \in 1..Len(data.v)}
    ELSE {[path |-> path, val |-> data]}

\* The keys of a path joined by dots
RECURSIVE DotJoined(_)
DotJoined(path) ==
    IF Len(path) = 1 THEN path[1]
    ELSE path[1] \o <<".">> \o DotJoined(Tail(path))

\* A scalar as a string, null as the empty string
Stringified(v) == IF v = JNull THEN <<>> ELSE str(v.v[1])

\* The string a leaf is to become
LeafString(val) ==
    IF val.t = "list"
    THEN JoinSemi([i \in 1..Len(val.v) |-> Stringified(val.v[i])])
    ELSE Stringified(val)

ExampleRecord ==
    JDict(<<Item(<<"a">>, JDict(<<Item(<<"b">>, JInt(1))>>)),
            Item(<<"c">>, JList(<<JInt(1), JInt(2)>>))>>)

ExampleFlat ==
    (<<"a", ".", "b">> :> <<"1">>) @@ (<<"c">> :> <<"1", ";", " ", "2">>)

\* C21: the result of flatten_json has, for every scalar and every list of
\* scalars of the raw record, the dot-joined path of its keys as a key, with
\* the scalar as a string (null as the empty string), the list as its
\* elements joined by "; ", as its value; it has no other key; and
\* {"a":{"b":1},"c":[1,2]} gives {"a.b":"1","c":"1; 2"}.
C21_FlattenResult ==
    (fn.name = "flatten_json" /\ fn.returned) =>
        /\ \A l \in Leaves(fn.arg, <<>>) :
              /\ DotJoined(l.path) \in DOMAIN fn.out
              /\ fn.out[DotJoined(l.path)] = LeafString(l.val)
        /\ DOMAIN fn.out = {DotJoined(l.path) : l \in Leaves(fn.arg, <<>>)}
        /\ fn.arg = ExampleRecord => fn.out = ExampleFlat

\* C22: the result of flatten_json has exactly one key for every leaf of the
\* raw record, no two leaves on the same key, and no key for an empty list or
\* an empty map.
C22_OneKeyPerLeaf ==
    (fn.name = "flatten_json" /\ fn.returned) =>
        LET leaves == {l \in Leaves(fn.arg, <<>>) : l.val # JList(<<>>)}
        IN  /\ \A l1, l2 \in leaves :
                  l1 # l2 => DotJoined(l1.path) # DotJoined(l2.path)
            /\ DOMAIN fn.out = {DotJoined(l.path) : l \in leaves}

\* The raw carding codes of a flat record: the values of its candidate keys
\* that are not empty, in the order of the keys
RawCodes(flat) ==
    {i \in 1..Len(candidate_keys) :
        candidate_keys[i] \in DOMAIN flat /\ flat[candidate_keys[i]] # <<>>}

\* The first of them
RawCode(flat) ==
    flat[candidate_keys[CHOOSE i \in RawCodes(flat) : \A j \in RawCodes(flat) : i <= j]]

\* The code is a key of CARDING_MAP
IsMapped(code) ==
    isdigit(strip(code)) /\ int(strip(code)) \in DOMAIN CARDING_MAP

\* C23: when the raw carding code of a record (the first non-empty value
\* among the candidate keys) is not a key of CARDING_MAP, whether it parses
\* as a number or not, derive_carding_columns sets carding_level_mapped to
\* "Unknown (<code>)", and never to the empty string.
C23_UnknownIsVisible ==
    (/\ fn.name = "derive_carding_columns" /\ fn.returned
     /\ RawCodes(fn.arg) # {}
     /\ ~IsMapped(RawCode(fn.arg))) =>
        /\ "carding_level_mapped" \in DOMAIN fn.out
        /\ fn.out["carding_level_mapped"] # <<>>
        /\ fn.out["carding_level_mapped"]
              = <<"U", "n", "k", "n", "o", "w", "n", " ", "(">>
                  \o strip(RawCode(fn.arg)) \o <<")">>

\* The sport in the cell is a test sport: an entry of TEST_SPORTS, or a
\* string with "(test" in it, in whatever case
IsTestSport(v) ==
    /\ v # NaN
    /\ v \in TEST_SPORTS \/ contains(lower(v), <<"(", "t", "e", "s", "t">>)

\* C24: the output of remove_test_sports has no row whose sport.name or
\* current_nomination.sport.name is a test sport, it has every row of the
\* input that has no test sport in any sport column, and it has no row and
\* no column the input has not.
C24_ExclusionFilter ==
    (fn.name = "remove_test_sports" /\ fn.returned) =>
        LET df   == fn.arg
            out  == fn.out
            clean(r) == \A col \in SportColumns \cap df.columns : ~IsTestSport(r[col])
        IN  /\ out.columns = df.columns
            /\ \A j \in 1..Len(out.rows) :
                  /\ \A col \in {"sport.name", "current_nomination.sport.name"}
                                 \cap df.columns : ~IsTestSport(out.rows[j][col])
                  /\ \E i \in 1..Len(df.rows) : df.rows[i] = out.rows[j]
            /\ \A i \in 1..Len(df.rows) :
                  clean(df.rows[i]) => \E j \in 1..Len(out.rows) : out.rows[j] = df.rows[i]

\* C24 witness: of two rows, the one with a test sport typed in another case
\* in its nomination is gone and the one with the word "Contest" is kept
C24_Witness ==
    /\ fn.name = "remove_test_sports" /\ fn.returned
    /\ fn.arg.columns = {"sport.name", "current_nomination.sport.name"}
    /\ Len(fn.arg.rows) = 2
    /\ fn.arg.rows[1]["sport.name"] = <<"R", "o", "w", "i", "n", "g">>
    /\ fn.arg.rows[1]["current_nomination.sport.name"] = <<" ", "J", "u", "d", "o", " ", "(", "T", "e", "s", "t", ")", " ">>
    /\ fn.arg.rows[2]["sport.name"] = <<"C", "o", "n", "t", "e", "s", "t">>
    /\ fn.out.rows = <<fn.arg.rows[2]>>

\* C25: when update_filtered_preview or download_filtered_csv has returned,
\* cached_df is what it was before, in its rows, columns and cells, whatever
\* the filters and whatever columns the store has.
C25_ViewsLeaveStore ==
    (fn.name \in {"update_filtered_preview", "download_filtered_csv"} /\ fn.returned)
        => fn.out.cached_df = fn.arg.cached_df

\* The number of rows of the page the invocation that returns has fetched:
\* those of a 200 answer with a list of results, none after any other answer
PageSize ==
    IF AnsweredPage(1) THEN Len(calls[1].attempt.rows) ELSE 0

\* C31: between invocations total_rows is the sum of the sizes of the pages
\* fetched since the last reset (it is 0 when a cycle starts, goes up by the
\* size of its page when an invocation returns, and changes in no other
\* step) and is not smaller than the number of rows of cached_df; and
\* whenever next_url is set, done is false and current_index is below
\* len(campus_ids).
C31_TotalConsistentWithStore ==
    /\ [](AllIdle =>
            /\ FETCH_STATE.total_rows >= Len(cached_df)
            /\ FETCH_STATE.next_url # NoUrl =>
                  /\ ~FETCH_STATE.done
                  /\ FETCH_STATE.current_index < Len(FETCH_STATE.campus_ids))
    /\ [][FETCH_STATE'.total_rows =
            IF ~NoResetStep THEN 0
            ELSE IF Returns THEN FETCH_STATE.total_rows + PageSize
            ELSE FETCH_STATE.total_rows]_vars

\* C31 witness: between invocations, after pages of three rows in all, two
\* of them dropped as duplicates, with a cursor stored for the second campus
C31_Witness ==
    /\ AllIdle
    /\ FETCH_STATE.total_rows = 3
    /\ Len(cached_df) = 1
    /\ FETCH_STATE.next_url # NoUrl
    /\ FETCH_STATE.current_index = 1
    /\ ~FETCH_STATE.done

====
